---- MODULE Spec2Model ----
(***************************************************************************)
(* cargo-mcp: the `cargo_test` and `cargo_bench` tools.                    *)
(*                                                                         *)
(* Each tool turns a request (a struct of optional fields) into a cargo    *)
(* argument vector, resolves the project directory and the toolchain from  *)
(* the session state, and runs the command.  The model keeps the session   *)
(* (current project, default toolchain), the request the host has handed   *)
(* over and, once a tool has run, what the invocation built and returned.  *)
(***************************************************************************)
EXTENDS Integers, Sequences, FiniteSets, TLC

VARIABLES
    project,            \* session: Option<PathBuf>, the current project
    default_toolchain,  \* session: what get_default_toolchain(None) yields
    pending,            \* Option<[tool, req]>: request handed to a tool
    inv                 \* Option<invocation>: what the last execute() did

vars == <<project, default_toolchain, pending, inv>>

(***************************************************************************)
(* Bounds of the input universe.                                           *)
(***************************************************************************)
NumNames == 3
NumEnvVars == 1

\* Strings a caller may put in package / test_name / bench_name / baseline.
\* They are arbitrary Rust Strings: flag-looking values are among them.
NameList == <<"my-lib", "--", "--quiet", "--package", "--nocapture", "main">>
Names == {NameList[i] : i \in 1..NumNames}

EnvKeyList == <<"RUST_LOG", "TEST_ENV", "CARGO_TERM_COLOR">>
EnvKeys == {EnvKeyList[i] : i \in 1..NumEnvVars}
EnvValues == {"debug"}

ReqToolchains == {"nightly"}
SessionToolchains == {"stable"}
Paths == {"/work/app", "/work/lib"}
ExitStatuses == {0, 1, 101}
Outputs == {"test result: ok", "error: test failed"}

(***************************************************************************)
(* Rust's Option<T> as a set with at most one element.                     *)
(***************************************************************************)
None == {}
Some(x) == {x}
IsSome(o) == o # {}
Unwrap(o) == CHOOSE x \in o : TRUE
UnwrapOr(o, d) == IF o = {} THEN d ELSE CHOOSE x \in o : TRUE
Option(S) == {None} \cup {Some(x) : x \in S}

\* Result<Option<String>>: Ok(v) or Err.
Ok(v) == [ok |-> TRUE, val |-> v]
Err == [ok |-> FALSE, val |-> None]
\* Result::unwrap_or(None)
ResultUnwrapOr(r, d) == IF r.ok THEN r.val ELSE d

\* HashMap<String, String>: a set of <<key, value>> pairs with unique keys.
EnvMaps == UNION {[S -> EnvValues] : S \in SUBSET EnvKeys}
MapOf(f) == {<<k, f[k]>> : k \in DOMAIN f}
HashMaps == {MapOf(f) : f \in EnvMaps}

(***************************************************************************)
(* Request structs.                                                        *)
(***************************************************************************)
CargoTest ==
    [package : Option(Names), test_name : Option(Names),
     no_capture : Option(BOOLEAN), quiet : Option(BOOLEAN),
     toolchain : Option(ReqToolchains), cargo_env : Option(HashMaps)]

CargoBench ==
    [package : Option(Names), bench_name : Option(Names),
     baseline : Option(Names), quiet : Option(BOOLEAN),
     toolchain : Option(ReqToolchains), cargo_env : Option(HashMaps)]

(***************************************************************************)
(* Argument vectors.                                                       *)
(***************************************************************************)
\* Variant: quiet on unless switched off (`unwrap_or(true)`).
TestArgs_QuietByDefault(req) ==
    LET a0 == <<"test">>
        a1 == IF UnwrapOr(req.quiet, TRUE) THEN Append(a0, "--quiet") ELSE a0
        a2 == IF IsSome(req.package)
              THEN a1 \o <<"--package", Unwrap(req.package)>> ELSE a1
        a3 == IF IsSome(req.test_name)
              THEN Append(a2, Unwrap(req.test_name)) ELSE a2
        a4 == IF UnwrapOr(req.no_capture, FALSE)
              THEN a3 \o <<"--", "--nocapture">> ELSE a3
    IN a4

\* Variant: the name filter pushed before the package pair.
TestArgs_FilterBeforePackage(req) ==
    LET a0 == <<"test">>
        a1 == IF UnwrapOr(req.quiet, FALSE) THEN Append(a0, "--quiet") ELSE a0
        a2 == IF IsSome(req.test_name)
              THEN Append(a1, Unwrap(req.test_name)) ELSE a1
        a3 == IF IsSome(req.package)
              THEN a2 \o <<"--package", Unwrap(req.package)>> ELSE a2
        a4 == IF UnwrapOr(req.no_capture, FALSE)
              THEN a3 \o <<"--", "--nocapture">> ELSE a3
    IN a4

TestArgs(req) ==
    LET a0 == <<"test">>
        a1 == IF UnwrapOr(req.quiet, FALSE) THEN Append(a0, "--quiet") ELSE a0
        a2 == IF IsSome(req.package)
              THEN a1 \o <<"--package", Unwrap(req.package)>> ELSE a1
        a3 == IF IsSome(req.test_name)
              THEN Append(a2, Unwrap(req.test_name)) ELSE a2
        a4 == IF UnwrapOr(req.no_capture, FALSE)
              THEN a3 \o <<"--", "--nocapture">> ELSE a3
    IN a4

\* Variant: `--quiet` pushed after the package pair.
BenchArgs_QuietAfterPackage(req) ==
    LET a0 == <<"bench">>
        a1 == IF IsSome(req.package)
              THEN a0 \o <<"--package", Unwrap(req.package)>> ELSE a0
        a2 == IF UnwrapOr(req.quiet, FALSE) THEN Append(a1, "--quiet") ELSE a1
        a3 == IF IsSome(req.bench_name)
              THEN Append(a2, Unwrap(req.bench_name)) ELSE a2
        a4 == IF IsSome(req.baseline)
              THEN a3 \o <<"--", "--save-baseline", Unwrap(req.baseline)>> ELSE a3
    IN a4

\* Variant: the baseline flag pushed without the `--` separator.
BenchArgs_NoSeparator(req) ==
    LET a0 == <<"bench">>
        a1 == IF UnwrapOr(req.quiet, FALSE) THEN Append(a0, "--quiet") ELSE a0
        a2 == IF IsSome(req.package)
              THEN a1 \o <<"--package", Unwrap(req.package)>> ELSE a1
        a3 == IF IsSome(req.bench_name)
              THEN Append(a2, Unwrap(req.bench_name)) ELSE a2
        a4 == IF IsSome(req.baseline)
              THEN a3 \o <<"--save-baseline", Unwrap(req.baseline)>> ELSE a3
    IN a4

BenchArgs(req) ==
    LET a0 == <<"bench">>
        a1 == IF UnwrapOr(req.quiet, FALSE) THEN Append(a0, "--quiet") ELSE a0
        a2 == IF IsSome(req.package)
              THEN a1 \o <<"--package", Unwrap(req.package)>> ELSE a1
        a3 == IF IsSome(req.bench_name)
              THEN Append(a2, Unwrap(req.bench_name)) ELSE a2
        a4 == IF IsSome(req.baseline)
              THEN a3 \o <<"--", "--save-baseline", Unwrap(req.baseline)>> ELSE a3
    IN a4

(***************************************************************************)
(* Session state (crate::state::CargoTools).                               *)
(***************************************************************************)
\* ensure_rust_project(None): the project path, or an error when the
\* session has no project.
ensure_rust_project == IF project = None THEN Err ELSE Ok(project)

\* get_default_toolchain(None): Ok(stored default), or Err when the session
\* entry cannot be had.
get_default_toolchain == default_toolchain

\* Toolchain from args, session default, or none.  `or_else` runs the
\* session lookup only when the request has no toolchain; a failed lookup
\* counts as no default.
\* Variant: the session default preferred to the request's toolchain.
TestToolchain_SessionFirst(req) ==
    IF IsSome(ResultUnwrapOr(get_default_toolchain, None))
    THEN [toolchain |-> ResultUnwrapOr(get_default_toolchain, None),
          consulted |-> TRUE]
    ELSE [toolchain |-> req.toolchain, consulted |-> TRUE]

TestToolchain(req) ==
    IF IsSome(req.toolchain)
    THEN [toolchain |-> req.toolchain, consulted |-> FALSE]
    ELSE [toolchain |-> ResultUnwrapOr(get_default_toolchain, None),
          consulted |-> TRUE]

BenchToolchain(req) ==
    IF IsSome(req.toolchain)
    THEN [toolchain |-> req.toolchain, consulted |-> FALSE]
    ELSE [toolchain |-> ResultUnwrapOr(get_default_toolchain, None),
          consulted |-> TRUE]

(***************************************************************************)
(* crate::tools::cargo_utils.                                              *)
(***************************************************************************)
\* create_cargo_command(args, toolchain, env): `cargo [+toolchain] args...`
\* with the overlay env applied on top of the inherited environment.
create_cargo_command(args, toolchain, env) ==
    [program |-> "cargo",
     toolchain |-> toolchain,
     args |-> args,
     env |-> IF env = None THEN {} ELSE Unwrap(env),
     cwd |-> None]

\* The subprocess, as the executor sees it.
SpawnFailure == [launched |-> FALSE, status |-> 0 - 1, output |-> ""]
Outcomes ==
    {SpawnFailure} \cup
    {[launched |-> TRUE, status |-> s, output |-> o] :
        s \in ExitStatuses, o \in Outputs}

ConfigError == [ok |-> FALSE, class |-> "no-project", output |-> "", label |-> ""]
LaunchError == [ok |-> FALSE, class |-> "launch", output |-> "", label |-> ""]
Report(class, output, label) ==
    [ok |-> TRUE, class |-> class, output |-> output, label |-> label]

\* execute_cargo_command(cmd, project_path, label): run in project_path,
\* wait, classify by exit status.
execute_cargo_command(cmd, project_path, label, proc) ==
    [cmd |-> Some([cmd EXCEPT !.cwd = Some(project_path)]),
     proc |-> IF proc.launched THEN Some(proc) ELSE None,
     result |-> IF ~proc.launched THEN LaunchError
                ELSE IF proc.status = 0 THEN Report("success", proc.output, "")
                ELSE Report("failure", proc.output, label)]

(***************************************************************************)
(* The tools.  An invocation record is what one execute() call did: the    *)
(* command it built (None when it built none), the subprocess it ran (None *)
(* when none ran) and the Result it returned.                              *)
(***************************************************************************)
TestLabel == "cargo test"
\* Variant: the label copied from the test tool.
BenchLabel_Copied == "cargo test"
BenchLabel == "cargo bench"

\* self.cargo_env.as_ref()
\* Variant: no environment passed on.
TestEnv_Dropped(req) == None
TestEnv(req) == req.cargo_env
BenchEnv(req) == req.cargo_env

\* Variant: a missing project replaced by the current directory instead of
\* ending the call.
CargoTestRun_NoProjectCheck(req, proc) ==
    LET project_path == ensure_rust_project
        path == IF project_path.ok THEN Unwrap(project_path.val) ELSE "."
        tc == TestToolchain(req)
        args == TestArgs(req)
        cmd == create_cargo_command(args, tc.toolchain, TestEnv(req))
        run == execute_cargo_command(cmd, path, TestLabel, proc)
    IN [tool |-> "test", req |-> req, consulted |-> tc.consulted,
        cmd |-> run.cmd, proc |-> run.proc, result |-> run.result]

\* <CargoTest as Tool>::execute, with `proc` what the subprocess will do.
CargoTestRun(req, proc) ==
    LET project_path == ensure_rust_project
    IN IF ~project_path.ok
       THEN [tool |-> "test", req |-> req, consulted |-> FALSE,
             cmd |-> None, proc |-> None, result |-> ConfigError]
       ELSE LET tc == TestToolchain(req)
                args == TestArgs(req)
                cmd == create_cargo_command(args, tc.toolchain, TestEnv(req))
                run == execute_cargo_command(
                           cmd, Unwrap(project_path.val), TestLabel, proc)
            IN [tool |-> "test", req |-> req, consulted |-> tc.consulted,
                cmd |-> run.cmd, proc |-> run.proc, result |-> run.result]

\* Variant: the request's toolchain stored as the session default.
CargoTestExecute_StoresToolchain ==
    /\ inv = None
    /\ \E p \in pending, proc \in Outcomes :
        /\ p.tool = "test"
        /\ inv' = Some(CargoTestRun(p.req, proc))
        /\ default_toolchain' =
              IF IsSome(p.req.toolchain) THEN Ok(p.req.toolchain)
              ELSE default_toolchain
    /\ pending' = None
    /\ UNCHANGED project

CargoTestExecute ==
    /\ inv = None
    /\ \E p \in pending, proc \in Outcomes :
        /\ p.tool = "test"
        /\ inv' = Some(CargoTestRun(p.req, proc))
    /\ pending' = None
    /\ UNCHANGED <<project, default_toolchain>>

\* Variant: a failed default-toolchain lookup ends the call (`?` in place
\* of `unwrap_or(None)`).
CargoBenchRun_LookupErrorFails(req, proc) ==
    LET project_path == ensure_rust_project
    IN IF ~project_path.ok
       THEN [tool |-> "bench", req |-> req, consulted |-> FALSE,
             cmd |-> None, proc |-> None, result |-> ConfigError]
       ELSE IF req.toolchain = None /\ ~get_default_toolchain.ok
       THEN [tool |-> "bench", req |-> req, consulted |-> TRUE,
             cmd |-> None, proc |-> None, result |-> LaunchError]
       ELSE LET tc == BenchToolchain(req)
                args == BenchArgs(req)
                cmd == create_cargo_command(args, tc.toolchain, BenchEnv(req))
                run == execute_cargo_command(
                           cmd, Unwrap(project_path.val), BenchLabel, proc)
            IN [tool |-> "bench", req |-> req, consulted |-> tc.consulted,
                cmd |-> run.cmd, proc |-> run.proc, result |-> run.result]

\* <CargoBench as Tool>::execute, with `proc` what the subprocess will do.
CargoBenchRun(req, proc) ==
    LET project_path == ensure_rust_project
    IN IF ~project_path.ok
       THEN [tool |-> "bench", req |-> req, consulted |-> FALSE,
             cmd |-> None, proc |-> None, result |-> ConfigError]
       ELSE LET tc == BenchToolchain(req)
                args == BenchArgs(req)
                cmd == create_cargo_command(args, tc.toolchain, BenchEnv(req))
                run == execute_cargo_command(
                           cmd, Unwrap(project_path.val), BenchLabel, proc)
            IN [tool |-> "bench", req |-> req, consulted |-> tc.consulted,
                cmd |-> run.cmd, proc |-> run.proc, result |-> run.result]

CargoBenchExecute ==
    /\ inv = None
    /\ \E p \in pending, proc \in Outcomes :
        /\ p.tool = "bench"
        /\ inv' = Some(CargoBenchRun(p.req, proc))
    /\ pending' = None
    /\ UNCHANGED <<project, default_toolchain>>

(***************************************************************************)
(* The host: hands requests to the tools one at a time, takes the result,  *)
(* and changes the session through the set-project / set-toolchain tools.  *)
(***************************************************************************)
ReceiveTest ==
    /\ pending = None /\ inv = None
    /\ \E req \in CargoTest : pending' = Some([tool |-> "test", req |-> req])
    /\ UNCHANGED <<project, default_toolchain, inv>>

ReceiveBench ==
    /\ pending = None /\ inv = None
    /\ \E req \in CargoBench : pending' = Some([tool |-> "bench", req |-> req])
    /\ UNCHANGED <<project, default_toolchain, inv>>

\* The Result<String> goes back to the caller; nothing of it is kept.
Return ==
    /\ inv # None
    /\ inv' = None
    /\ UNCHANGED <<project, default_toolchain, pending>>

SetProject ==
    /\ inv = None
    /\ \E p \in Option(Paths) : project' = p
    /\ UNCHANGED <<default_toolchain, pending, inv>>

SetToolchain ==
    /\ inv = None
    /\ \E t \in Option(SessionToolchains) : default_toolchain' = Ok(t)
    /\ UNCHANGED <<project, pending, inv>>

\* The session entry becomes unavailable: lookups of it fail.
SessionLost ==
    /\ inv = None
    /\ default_toolchain' = Err
    /\ UNCHANGED <<project, pending, inv>>

Init ==
    /\ project = None
    /\ default_toolchain = Ok(None)
    /\ pending = None
    /\ inv = None

Next ==
    \/ ReceiveTest
    \/ ReceiveBench
    \/ CargoTestExecute
    \/ CargoBenchExecute
    \/ Return
    \/ SetProject
    \/ SetToolchain
    \/ SessionLost

Spec == Init /\ [][Next]_vars

TypeOK ==
    /\ project \in Option(Paths)
    /\ default_toolchain \in {Err} \cup {Ok(t) : t \in Option(SessionToolchains)}
    /\ Cardinality(pending) <= 1
    /\ Cardinality(inv) <= 1

(***************************************************************************)
(* Properties.  They speak of the invocation record `inv`, which holds the *)
(* request, the command built from it and the result returned; the session *)
(* cannot change while a record is held, so `project` and                  *)
(* `default_toolchain` are the values the invocation saw.                  *)
(***************************************************************************)
\* Number of occurrences of token t in the sequence a.
Count(a, t) == Cardinality({k \in 1..Len(a) : a[k] = t})

\* The name-filter field and the subcommand of an invocation.
FilterOf(i) == IF i.tool = "test" THEN i.req.test_name ELSE i.req.bench_name
SubcommandOf(i) == IF i.tool = "test" THEN "test" ELSE "bench"
QuietOf(i) == TRUE \in i.req.quiet

\* The tokens the tool is to hand to the harness, without the separator.
PassThroughOf(i) ==
    IF i.tool = "test"
    THEN (IF TRUE \in i.req.no_capture THEN <<"--nocapture">> ELSE <<>>)
    ELSE (IF i.req.baseline # {}
          THEN <<"--save-baseline", CHOOSE b \in i.req.baseline : TRUE>>
          ELSE <<>>)

\* How many of the request's string fields carry the value t verbatim.
FieldsEqual(i, t) ==
    (IF i.req.package = {t} THEN 1 ELSE 0)
    + (IF FilterOf(i) = {t} THEN 1 ELSE 0)
    + (IF i.tool = "bench" /\ i.req.baseline = {t} THEN 1 ELSE 0)

AllAbsent(i) ==
    /\ i.req.package = {}
    /\ FilterOf(i) = {}
    /\ i.req.quiet = {}
    /\ i.req.toolchain = {}
    /\ i.req.cargo_env = {}
    /\ IF i.tool = "test" THEN i.req.no_capture = {} ELSE i.req.baseline = {}

\* C1: a request with every optional field absent builds the argv
\* [subcommand] and an empty environment overlay, for test and for bench.
C1_AllAbsentArgv ==
    \A i \in inv : \A c \in i.cmd :
        AllAbsent(i) => (c.args = <<SubcommandOf(i)>> /\ c.env = {})

C1_Witness ==
    \E i \in inv : \E c \in i.cmd :
        AllAbsent(i) /\ i.tool = "test" /\ c.args = <<"test">>

\* C2 as stated: whatever the other fields are, with quiet true the argv
\* holds exactly one `--quiet` token, at index 1 (the second token); with
\* quiet absent or false the tool emits none (the only `--quiet` tokens are
\* field values).
C2_Original ==
    \A i \in inv : \A c \in i.cmd :
        IF QuietOf(i)
        THEN Count(c.args, "--quiet") = 1 /\ c.args[2] = "--quiet"
        ELSE Count(c.args, "--quiet") = FieldsEqual(i, "--quiet")

\* C2, amended: with quiet true the second token is `--quiet` and the tool
\* adds that token once: the `--quiet` tokens of argv are that one plus the
\* string fields whose value is literally `--quiet`; with quiet absent or
\* false the tool adds none, so only such field values remain.
C2_QuietToken ==
    \A i \in inv : \A c \in i.cmd :
        IF QuietOf(i)
        THEN /\ Len(c.args) >= 2
             /\ c.args[1] = SubcommandOf(i)
             /\ c.args[2] = "--quiet"
             /\ Count(c.args, "--quiet") = 1 + FieldsEqual(i, "--quiet")
        ELSE Count(c.args, "--quiet") = FieldsEqual(i, "--quiet")

C2_Witness ==
    \E i \in inv : \E c \in i.cmd :
        /\ QuietOf(i) /\ i.req.package # {} /\ FilterOf(i) # {}
        /\ Count(c.args, "--quiet") = 1

\* C3: the groups appear in the order subcommand, quiet flag, package
\* pair, name filter, pass-through group, whichever fields are present; in
\* particular a package name gives the adjacent pair ["--package", name]
\* after `--quiet` and before the name filter.
C3_GroupOrder ==
    \A i \in inv : \A c \in i.cmd :
        LET q == IF QuietOf(i) THEN 1 ELSE 0
            p == IF i.req.package # {} THEN 2 ELSE 0
            f == IF FilterOf(i) # {} THEN 1 ELSE 0
            pt == PassThroughOf(i)
            t == IF pt = <<>> THEN 0 ELSE 1 + Len(pt)
        IN /\ Len(c.args) = 1 + q + p + f + t
           /\ c.args[1] = SubcommandOf(i)
           /\ q = 1 => c.args[2] = "--quiet"
           /\ p = 2 => /\ c.args[2 + q] = "--package"
                       /\ {c.args[3 + q]} = i.req.package
           /\ f = 1 => {c.args[2 + q + p]} = FilterOf(i)
           /\ t > 0 => /\ c.args[2 + q + p + f] = "--"
                       /\ \A k \in 1..Len(pt) : c.args[2 + q + p + f + k] = pt[k]

C3_Witness ==
    \E i \in inv : \E c \in i.cmd :
        /\ QuietOf(i) /\ i.req.package # {} /\ FilterOf(i) # {}
        /\ PassThroughOf(i) # <<>>
        /\ i.tool = "bench"
        /\ Len(c.args) = 8

\* C4 as stated: with a pass-through flag requested, for all values of the
\* other fields, the argv holds a single `--` token, right before the
\* pass-through tokens, which end the argv; with none requested the tool
\* emits no separator (the only `--` tokens are field values).
C4_Original ==
    \A i \in inv : \A c \in i.cmd :
        LET pt == PassThroughOf(i)
            n == Len(c.args)
        IN IF pt # <<>>
           THEN /\ Count(c.args, "--") = 1
                /\ n > Len(pt)
                /\ c.args[n - Len(pt)] = "--"
                /\ \A k \in 1..Len(pt) : c.args[n - Len(pt) + k] = pt[k]
           ELSE Count(c.args, "--") = FieldsEqual(i, "--")

\* C4, amended: with a pass-through flag requested the argv ends with `--`
\* followed by the pass-through tokens, and the tool adds the separator
\* once: the `--` tokens of argv are that one plus the string fields
\* (package, name filter, baseline) whose value is literally `--`; with no
\* pass-through flag requested the tool adds no separator, so only such
\* field values remain.
C4_Separator ==
    \A i \in inv : \A c \in i.cmd :
        LET pt == PassThroughOf(i)
            n == Len(c.args)
        IN IF pt # <<>>
           THEN /\ n > Len(pt)
                /\ c.args[n - Len(pt)] = "--"
                /\ \A k \in 1..Len(pt) : c.args[n - Len(pt) + k] = pt[k]
                /\ Count(c.args, "--") = 1 + FieldsEqual(i, "--")
           ELSE Count(c.args, "--") = FieldsEqual(i, "--")

C4_Witness ==
    \E i \in inv : \E c \in i.cmd :
        /\ i.tool = "bench" /\ i.req.baseline # {} /\ FilterOf(i) # {}
        /\ Count(c.args, "--") = 1
        /\ c.args[Len(c.args) - 2] = "--"

\* C5: the command's toolchain is the request's when it has one, else the
\* session's stored default when one is set, else none.
C5_ToolchainPrecedence ==
    \A i \in inv : \A c \in i.cmd :
        IF i.req.toolchain # {}
        THEN c.toolchain = i.req.toolchain
        ELSE IF default_toolchain.ok /\ default_toolchain.val # {}
        THEN c.toolchain = default_toolchain.val
        ELSE c.toolchain = {}

C5_Witness ==
    \E i \in inv : \E c \in i.cmd :
        /\ i.req.toolchain = {"nightly"}
        /\ default_toolchain.ok /\ default_toolchain.val = {"stable"}
        /\ c.toolchain = {"nightly"}

\* C6: with no project configured an invocation returns the configuration
\* error, and neither builds a command nor runs a subprocess.
C6_NoProjectNoSubprocess ==
    \A i \in inv :
        project = {} =>
            /\ i.cmd = {}
            /\ i.proc = {}
            /\ ~i.result.ok
            /\ i.result.class = "no-project"

C6_Witness ==
    \E i \in inv : project = {} /\ i.tool = "bench" /\ ~i.result.ok

\* C7: the classification follows the exit status alone: status 0 gives a
\* success report with the captured output whatever the text says, a
\* non-zero status gives a returned failure report with the captured output
\* and the tool's label ("cargo test", "cargo bench").
C7_ExitStatusClassifies ==
    \A i \in inv : \A pr \in i.proc :
        /\ i.result.ok
        /\ i.result.output = pr.output
        /\ pr.status = 0 => i.result.class = "success"
        /\ pr.status # 0 =>
              /\ i.result.class = "failure"
              /\ i.result.label =
                    (IF i.tool = "test" THEN "cargo test" ELSE "cargo bench")

C7_Witness ==
    \E i \in inv : \E pr \in i.proc :
        /\ i.tool = "bench"
        /\ pr.status # 0
        /\ pr.output = "test result: ok"
        /\ i.result.class = "failure"

\* C8: a test or bench invocation leaves the session's project path and
\* default toolchain as they were, whatever its outcome.
C8_SessionUntouched ==
    [][(inv = {} /\ inv' # {}) =>
          (project' = project /\ default_toolchain' = default_toolchain)]_vars

C8_Witness ==
    \E i \in inv :
        /\ i.result.class = "failure"
        /\ project # {}
        /\ default_toolchain.ok /\ default_toolchain.val # {}

\* C9: the environment overlay of an invocation's command is the cargo_env
\* mapping of its own request, empty when absent.
C9_EnvRequestScoped ==
    \A i \in inv : \A c \in i.cmd :
        c.env = (IF i.req.cargo_env = {} THEN {}
                 ELSE CHOOSE m \in i.req.cargo_env : TRUE)

C9_Witness ==
    \E i \in inv : \E c \in i.cmd :
        i.req.cargo_env # {} /\ c.env # {} /\ i.tool = "test"

\* C10: a failed default-toolchain lookup does not fail the invocation: with
\* no toolchain in the request the command is built and run with no
\* toolchain selector; and with a toolchain in the request the session
\* default is not looked up.
C10_LookupFailureSwallowed ==
    \A i \in inv :
        /\ (project # {} /\ i.req.toolchain = {} /\ ~default_toolchain.ok) =>
              /\ i.consulted
              /\ \E c \in i.cmd : c.toolchain = {} /\ c.cwd = project
              /\ i.result.ok <=> i.proc # {}
              /\ i.result.class # "no-project"
        /\ i.req.toolchain # {} => ~i.consulted

C10_Witness ==
    \E i \in inv : \E c \in i.cmd :
        /\ i.req.toolchain = {} /\ ~default_toolchain.ok
        /\ i.tool = "bench"
        /\ c.toolchain = {} /\ i.result.class = "success"
====
